---- MODULE Spec2Model ----
(***************************************************************************)
(* Model of the glove configurator (src/GloveConfigurator.jsx): the        *)
(* zustand design store, the persistence handlers of the main component    *)
(* and the two binder effects of ProceduralGlove that project the store    *)
(* onto the materials of the meshes.                                       *)
(*                                                                         *)
(* Conventions.  JavaScript objects are functions from their own keys to   *)
(* their values, so a missing key is a key outside the DOMAIN.  null is    *)
(* the record Null.  Numbers with decimals are kept in hundredths          *)
(* (roughness 0.9 is 90).  An object's identity is an integer next to its  *)
(* value (partsId, targetsId, a material's id, a texture's id).            *)
(***************************************************************************)
EXTENDS Integers, Sequences, FiniteSets, TLC

VARIABLES
    state,              \* the zustand store state (lines 46-56)
    notifications,      \* how many times the store notified its subscribers
    seen,               \* the store state handed to the subscribers by the last notification
    slot,               \* localStorage['latestGloveDesign'] (lines 311, 313)
    alertMsg,           \* text of the last alert() shown
    exported,           \* the tree getDesignJSON returned last, as its caller holds it
    mounted,            \* ProceduralGlove has been mounted (its meshes exist)
    meshes,             \* refs[k].current.material for every mesh of the scene
    rendered,           \* identities of parts / targets seen by the last effect run
    allocs,             \* number of textures (and cloned materials) created so far
    disposedTextures,   \* ids of the textures on which dispose() was called
    crashed,            \* an effect threw: React unmounted the tree
    now,                \* the clock, one tick per handler
    last                \* the handler that ran last, with its arguments

vars == <<state, notifications, seen, slot, alertMsg, exported, mounted, meshes,
          rendered, allocs, disposedTextures, crashed, now, last>>

----------------------------------------------------------------------------
(* Bounds of the model *)

MaxTime == 3

----------------------------------------------------------------------------
(* JavaScript values *)

Null == [kind |-> "null"]

Undefined == "undefined"

EmptyObject == [x \in {} |-> Undefined]

\* obj[key] for a string-valued key, undefined when the key is absent.
Get(obj, key) == IF key \in DOMAIN obj THEN obj[key] ELSE Undefined

\* obj[key] for an object-valued key.  The code only spreads the result or reads
\* it through ?. , and both treat undefined as an object without keys.
GetObject(obj, key) == IF key \in DOMAIN obj THEN obj[key] ELSE EmptyObject

\* { ...obj, [key]: val }
Assign(obj, key, val) ==
    [x \in (DOMAIN obj) \cup {key} |-> IF x = key THEN val ELSE obj[x]]

\* Object.assign({}, obj, partial)
Merge(obj, partial) ==
    [x \in (DOMAIN obj) \cup (DOMAIN partial) |->
        IF x \in DOMAIN partial THEN partial[x] ELSE obj[x]]

\* v || d for string values.
OrElse(v, d) == IF v \in {Undefined, ""} THEN d ELSE v

Max(a, b) == IF a >= b THEN a ELSE b

----------------------------------------------------------------------------
(* Config *)

PART_KEYS ==
    << "glove_backhand", "glove_palm", "glove_web", "glove_laces", "glove_welting",
       "glove_binding", "glove_wriststrap", "glove_logo_patch", "glove_stitching" >>

PartKeySet == { PART_KEYS[i] : i \in 1..Len(PART_KEYS) }

DEFAULT_PART_SETTINGS == [material |-> "full_grain", color |-> "#b06b4a", pattern |-> "none"]

InitialParts == [k \in PartKeySet |-> DEFAULT_PART_SETTINGS]

InitialTargets == [wriststrap |-> Null, thumb |-> Null, patch |-> Null]

\* Object.entries order of the targets object: the order of the literal.
TargetOrder == << "wriststrap", "thumb", "patch" >>

TargetKeySet == { TargetOrder[i] : i \in 1..Len(TargetOrder) }

\* The options of the material <select>.
MaterialOptions == {"full_grain", "suede", "synthetic"}

----------------------------------------------------------------------------
(* Arguments the operations are called with *)

PartArgs == {"glove_palm", "glove_logo_patch", "glove_fingertips"}

SelectArgs == {"glove_palm", "glove_fingertips"}

ColorArgs == {"#112233"}

\* full_grain is the material every part starts with and is reset to.
MaterialArgs == {"suede", "synthetic", "kevlar"}

TargetArgs == {"patch", "wriststrap"}

Payload(text, font, size, color) ==
    [kind |-> "spec", text |-> text, font |-> font, size |-> size, color |-> color]

PayloadArgs == {Null, Payload("LUX", "Arial", 40, "#fff"), Payload("", "Montserrat", 48, "#ffffff")}

----------------------------------------------------------------------------
(* Store *)

\* The state create() returns.  embroidery.targets is kept as the field targets;
\* partsId and targetsId are the identities of the two objects.
InitialState ==
    [selectedPart |-> PART_KEYS[1],
     parts        |-> InitialParts,
     partsId      |-> 1,
     targets      |-> InitialTargets,
     targetsId    |-> 1]

\* The functions the store defines.
StoreFunctions ==
    {"setPartColor", "setPartMaterial", "selectPart", "resetDesign",
     "setEmbroideryTarget", "getDesignJSON"}

\* What the subscribers of the store are handed.
View(st) == [selectedPart |-> st.selectedPart, parts |-> st.parts, targets |-> st.targets]

\* setPartColor that replaces the part's entry instead of spreading it.
setPartColor_NoSpread(st, part, color) ==
    [parts   |-> Assign(st.parts, part, [color |-> color]),
     partsId |-> st.partsId + 1]

\* setPartColor that builds the entry from the defaults instead of the old entry.
setPartColor_FromDefault(st, part, color) ==
    [parts   |-> Assign(st.parts, part, Assign(DEFAULT_PART_SETTINGS, "color", color)),
     partsId |-> st.partsId + 1]

\* setPartColor that writes into the parts object it was given and hands the
\* same object back to set().
setPartColor_InPlace(st, part, color) ==
    [parts   |-> Assign(st.parts, part, Assign(GetObject(st.parts, part), "color", color)),
     partsId |-> st.partsId]

\* The partial state each setter passes to set().
setPartColor(st, part, color) ==
    [parts   |-> Assign(st.parts, part, Assign(GetObject(st.parts, part), "color", color)),
     partsId |-> st.partsId + 1]

setPartMaterial(st, part, material) ==
    [parts   |-> Assign(st.parts, part, Assign(GetObject(st.parts, part), "material", material)),
     partsId |-> st.partsId + 1]

\* selectPart that hands set() a copy of the embroidery next to the selection
\* (set(state => ({ selectedPart: part, embroidery: { ...state.embroidery } }))).
selectPart_CopiesEmbroidery(st, part) ==
    [selectedPart |-> part, targets |-> st.targets, targetsId |-> st.targetsId + 1]

selectPart(st, part) == [selectedPart |-> part]

\* resetDesign that restores the parts only.
resetDesign_PartsOnly(st) ==
    [parts   |-> [k \in PartKeySet |-> DEFAULT_PART_SETTINGS],
     partsId |-> st.partsId + 1]

resetDesign(st) ==
    [parts     |-> [k \in PartKeySet |-> DEFAULT_PART_SETTINGS],
     partsId   |-> st.partsId + 1,
     targets   |-> [wriststrap |-> Null, thumb |-> Null, patch |-> Null],
     targetsId |-> st.targetsId + 1]

\* setEmbroideryTarget that writes into the targets object it finds
\* (state.embroidery.targets[targetKey] = payload) and hands that object back.
setEmbroideryTarget_InPlace(st, targetKey, payload) ==
    [targets   |-> Assign(st.targets, targetKey, payload),
     targetsId |-> st.targetsId]

setEmbroideryTarget(st, targetKey, payload) ==
    [targets   |-> Assign(st.targets, targetKey, payload),
     targetsId |-> st.targetsId + 1]

\* new Date().toISOString() at clock value t.
toISOString(t) == [iso |-> t]

\* getDesignJSON that spreads the whole store state into the tree
\* (({ ...get(), createdAt })).
getDesignJSON_WholeState(st, t) ==
    [selectedPart |-> st.selectedPart,
     parts        |-> st.parts,
     embroidery   |-> [targets |-> st.targets],
     createdAt    |-> toISOString(t)]

getDesignJSON(st, t) ==
    [parts     |-> st.parts,
     embroidery |-> [targets |-> st.targets],
     createdAt |-> toISOString(t)]

\* The tree of getDesignJSON holds get().parts and get().embroidery themselves,
\* not copies of them.  Held is the tree together with the identities of the
\* two objects it refers to.
Held(st, t) ==
    [json |-> getDesignJSON(st, t), partsId |-> st.partsId, targetsId |-> st.targetsId]

\* What a held tree shows once the store went from old to new: an object the
\* tree refers to that is still the store's own (same identity before and
\* after) shows the store's content; an object the store replaced keeps its own.
Aliased(held, old, new) ==
    IF held = Null THEN Null
    ELSE [held EXCEPT
            !.json.parts =
                IF held.partsId = old.partsId /\ new.partsId = old.partsId
                THEN new.parts ELSE @,
            !.json.embroidery =
                IF held.targetsId = old.targetsId /\ new.targetsId = old.targetsId
                THEN [targets |-> new.targets] ELSE @]

\* zustand's set(): the merged state replaces the old one, then every
\* subscriber is called once with the new state.
set(partial) ==
    /\ state' = Merge(state, partial)
    /\ notifications' = notifications + 1
    /\ seen' = View(Merge(state, partial))
    /\ exported' = Aliased(exported, state, Merge(state, partial))

Tick(op) ==
    /\ now < MaxTime
    /\ now' = now + 1
    /\ last' = op

SceneUnchanged == UNCHANGED <<mounted, meshes, rendered, allocs, disposedTextures, crashed>>

SetPartColor(part, color) ==
    /\ ~crashed
    /\ Tick([op |-> "setPartColor", key |-> part, value |-> color])
    /\ set(setPartColor(state, part, color))
    /\ UNCHANGED <<slot, alertMsg>>
    /\ SceneUnchanged

SetPartMaterial(part, material) ==
    /\ ~crashed
    /\ Tick([op |-> "setPartMaterial", key |-> part, value |-> material])
    /\ set(setPartMaterial(state, part, material))
    /\ UNCHANGED <<slot, alertMsg>>
    /\ SceneUnchanged

SelectPart(part) ==
    /\ ~crashed
    /\ Tick([op |-> "selectPart", key |-> part, value |-> ""])
    /\ set(selectPart(state, part))
    /\ UNCHANGED <<slot, alertMsg>>
    /\ SceneUnchanged

ResetDesign ==
    /\ ~crashed
    /\ Tick([op |-> "resetDesign", key |-> "", value |-> ""])
    /\ set(resetDesign(state))
    /\ UNCHANGED <<slot, alertMsg>>
    /\ SceneUnchanged

SetEmbroideryTarget(targetKey, payload) ==
    /\ ~crashed
    /\ Tick([op |-> "setEmbroideryTarget", key |-> targetKey,
             value |-> IF payload = Null THEN "null" ELSE "spec"])
    /\ set(setEmbroideryTarget(state, targetKey, payload))
    /\ UNCHANGED <<slot, alertMsg>>
    /\ SceneUnchanged

----------------------------------------------------------------------------
(* Persistence: saveToLocal / loadFromLocal and the localStorage slot *)

\* JSON.stringify of an object whose leaves are strings: the own keys whose
\* value is defined, in a text.
DefinedKeys(obj) == { f \in DOMAIN obj : obj[f] # Undefined }

StringifyParts(parts) ==
    [k \in DOMAIN parts |-> [f \in DefinedKeys(parts[k]) |-> parts[k][f]]]

JSONstringify(json) ==
    [kind       |-> "text",
     wellFormed |-> TRUE,
     doc        |-> [parts      |-> StringifyParts(json.parts),
                     embroidery |-> json.embroidery,
                     createdAt  |-> json.createdAt.iso]]

\* JSON.parse: the tree of a well-formed text, a SyntaxError otherwise.
JSONparse(raw) ==
    IF raw.wellFormed THEN [threw |-> FALSE, value |-> raw.doc]
                      ELSE [threw |-> TRUE, value |-> Null]

\* Texts another writer of the same storage may leave in the slot: one that is
\* no JSON, and a design that lacks the region glove_web.
GarbageText == [kind |-> "text", wellFormed |-> FALSE, doc |-> Null]

TruncatedDesignText ==
    [kind       |-> "text",
     wellFormed |-> TRUE,
     doc        |-> [parts      |-> [k \in PartKeySet \ {"glove_web"} |-> DEFAULT_PART_SETTINGS],
                     embroidery |-> [targets |-> InitialTargets],
                     createdAt  |-> 0]]

ForeignTexts == {GarbageText, TruncatedDesignText}

\* useStore(state => state.loadDesignJSON): a function only if the store defines it.
IsFunction(name) == name \in StoreFunctions

\* loadFromLocal that hands the parts of whatever parses to set().
loadFromLocal_ApplyUnchecked(st, raw, shown) ==
    IF raw = Null
    THEN [alert |-> "No saved design found", called |-> FALSE, partial |-> EmptyObject]
    ELSE IF JSONparse(raw).threw
         THEN [alert |-> "Failed to parse", called |-> FALSE, partial |-> EmptyObject]
         ELSE [alert |-> "Failed to parse", called |-> TRUE,
               partial |-> [parts |-> JSONparse(raw).value.parts, partsId |-> st.partsId + 1]]

\* loadFromLocal: the alert it shows and the set() it reaches, if any.  The
\* argument JSON.parse(raw) is evaluated before the call is attempted; calling
\* what is not a function throws a TypeError, caught like the SyntaxError.
loadFromLocal(st, raw, shown) ==
    IF raw = Null
    THEN [alert |-> "No saved design found", called |-> FALSE, partial |-> EmptyObject]
    ELSE IF JSONparse(raw).threw \/ ~IsFunction("loadDesignJSON")
         THEN [alert |-> "Failed to parse", called |-> FALSE, partial |-> EmptyObject]
         ELSE [alert |-> shown, called |-> FALSE, partial |-> EmptyObject]

SaveToLocal ==
    /\ mounted /\ ~crashed
    /\ Tick([op |-> "saveToLocal", key |-> "", value |-> ""])
    /\ exported' = Held(state, now)
    /\ slot' = JSONstringify(getDesignJSON(state, now))
    /\ alertMsg' = "Design saved locally."
    /\ UNCHANGED <<state, notifications, seen>>
    /\ SceneUnchanged

LoadFromLocal ==
    /\ mounted /\ ~crashed
    /\ Tick([op |-> "loadFromLocal", key |-> "", value |-> ""])
    /\ LET r == loadFromLocal(state, slot, alertMsg)
       IN  /\ alertMsg' = r.alert
           /\ IF r.called THEN set(r.partial)
                          ELSE UNCHANGED <<state, notifications, seen, exported>>
    /\ UNCHANGED slot
    /\ SceneUnchanged

\* Another writer of the origin's localStorage replaces the slot's text.
ForeignStorageWrite(text) ==
    /\ ~crashed
    /\ slot # text
    /\ Tick([op |-> "foreignStorageWrite", key |-> "", value |-> ""])
    /\ slot' = text
    /\ UNCHANGED <<state, notifications, seen, alertMsg, exported>>
    /\ SceneUnchanged

----------------------------------------------------------------------------
(* Scene: the meshes of ProceduralGlove and the two binder effects *)

\* The regions that have a <mesh> bound to their ref.
MeshKeys ==
    {"glove_palm", "glove_backhand", "glove_web", "glove_laces",
     "glove_wriststrap", "glove_logo_patch", "glove_stitching"}

NoTexture == [kind |-> "null"]

\* new THREE.Color(style): the 24-bit value of a hex style; a style that does
\* not parse leaves the colour white.
THREEColor(style) ==
    CASE style = "#b06b4a" -> 11561802
      [] style = "#112233" -> 1122867
      [] style = "#ffd700" -> 16766720
      [] style = "#000000" -> 0
      [] OTHER -> 16777215

\* The <meshStandardMaterial> each mesh is created with; three.js defaults are
\* roughness 1, metalness 0, transparent false, alphaTest 0, map null.
JSXMaterial(key, appliedParts) ==
    [id          |-> 0,
     color       |-> THREEColor(appliedParts[key].color),
     roughness   |-> IF key = "glove_palm" THEN 60 ELSE 100,
     metalness   |-> 0,
     transparent |-> (key = "glove_logo_patch"),
     alphaTest   |-> 0,
     map         |-> NoTexture]

\* Shading without the branch for full_grain.
Shading_NoFullGrain(material) ==
    CASE material = "suede" -> [roughness |-> 90, metalness |-> 0]
      [] OTHER              -> [roughness |-> 60, metalness |-> 5]

\* Shading set by the appearance effect for a material name.
Shading(material) ==
    CASE material = "suede"      -> [roughness |-> 90, metalness |-> 0]
      [] material = "full_grain" -> [roughness |-> 50, metalness |-> 0]
      [] OTHER                   -> [roughness |-> 60, metalness |-> 5]

\* One iteration of the appearance effect on the material of a mesh.
ApplyAppearance(mat, appearance) ==
    [mat EXCEPT !.color     = THREEColor(OrElse(Get(appearance, "color"), "#ffffff")),
                !.roughness = Shading(Get(appearance, "material")).roughness,
                !.metalness = Shading(Get(appearance, "material")).metalness]

\* The appearance effect: every key of PART_KEYS whose ref is set.
AppearanceEffect(ms, appliedParts) ==
    [k \in DOMAIN ms |->
        IF k \in PartKeySet THEN ApplyAppearance(ms[k], GetObject(appliedParts, k)) ELSE ms[k]]

\* The embroidery effect's map from target to mesh key.
TargetMesh == [wriststrap |-> "glove_wriststrap", patch |-> "glove_logo_patch", thumb |-> "glove_backhand"]

\* createTextTexture as the embroidery effect calls it (padding 20, scale 4).
\* The width depends on the host's text metrics and is left out.
createTextTexture(settings, id) ==
    LET px == Max(24, IF settings.size = 0 THEN 48 ELSE settings.size)
    IN  [kind   |-> "texture",
         id     |-> id,
         text   |-> settings.text,
         font   |-> [px |-> px, family |-> OrElse(settings.font, "Montserrat")],
         color  |-> OrElse(settings.color, "#fff"),
         height |-> Max(128, (px + 2 * 20) * 4)]

\* BindTarget whose clear branch leaves the material as it is.
BindTarget_NoClear(acc, t, settings, failAt) ==
    IF acc.threw \/ t \notin DOMAIN TargetMesh \/ TargetMesh[t] \notin DOMAIN acc.meshes
    THEN acc
    ELSE IF settings = Null
    THEN acc
    ELSE IF failAt = t
    THEN [acc EXCEPT !.threw = TRUE]
    ELSE [acc EXCEPT
            !.allocs = acc.allocs + 1,
            !.meshes[TargetMesh[t]] =
                [acc.meshes[TargetMesh[t]] EXCEPT
                    !.id          = acc.allocs + 1,
                    !.map         = createTextTexture(settings, acc.allocs + 1),
                    !.transparent = TRUE,
                    !.alphaTest   = 50]]

\* BindTarget that builds the replacement with new THREE.MeshStandardMaterial()
\* instead of cloning the mesh's material.
BindTarget_FreshMaterial(acc, t, settings, failAt) ==
    IF acc.threw \/ t \notin DOMAIN TargetMesh \/ TargetMesh[t] \notin DOMAIN acc.meshes
    THEN acc
    ELSE IF settings = Null
    THEN [acc EXCEPT !.meshes[TargetMesh[t]].map = NoTexture]
    ELSE IF failAt = t
    THEN [acc EXCEPT !.threw = TRUE]
    ELSE [acc EXCEPT
            !.allocs = acc.allocs + 1,
            !.meshes[TargetMesh[t]] =
                [id          |-> acc.allocs + 1,
                 color       |-> 16777215,
                 roughness   |-> 100,
                 metalness   |-> 0,
                 map         |-> createTextTexture(settings, acc.allocs + 1),
                 transparent |-> TRUE,
                 alphaTest   |-> 50]]

\* BindTarget that takes a specification with empty text for a clear
\* (if (!settings || !settings.text)).
BindTarget_EmptyTextClears(acc, t, settings, failAt) ==
    IF acc.threw \/ t \notin DOMAIN TargetMesh \/ TargetMesh[t] \notin DOMAIN acc.meshes
    THEN acc
    ELSE IF settings = Null \/ settings.text = ""
    THEN [acc EXCEPT !.meshes[TargetMesh[t]].map = NoTexture]
    ELSE IF failAt = t
    THEN [acc EXCEPT !.threw = TRUE]
    ELSE [acc EXCEPT
            !.allocs = acc.allocs + 1,
            !.meshes[TargetMesh[t]] =
                [acc.meshes[TargetMesh[t]] EXCEPT
                    !.id          = acc.allocs + 1,
                    !.map         = createTextTexture(settings, acc.allocs + 1),
                    !.transparent = TRUE,
                    !.alphaTest   = 50]]

\* One entry of the embroidery effect.  acc is the pass so far; failAt is the
\* target for which the 2d context cannot be created, so createTextTexture throws.
BindTarget(acc, t, settings, failAt) ==
    IF acc.threw \/ t \notin DOMAIN TargetMesh \/ TargetMesh[t] \notin DOMAIN acc.meshes
    THEN acc
    ELSE IF settings = Null
    THEN [acc EXCEPT !.meshes[TargetMesh[t]].map = NoTexture]
    ELSE IF failAt = t
    THEN [acc EXCEPT !.threw = TRUE]
    ELSE [acc EXCEPT
            !.allocs = acc.allocs + 1,
            !.meshes[TargetMesh[t]] =
                [acc.meshes[TargetMesh[t]] EXCEPT
                    !.id          = acc.allocs + 1,
                    !.map         = createTextTexture(settings, acc.allocs + 1),
                    !.transparent = TRUE,
                    !.alphaTest   = 50]]

RECURSIVE BindTargets(_, _, _, _)
BindTargets(acc, i, embroideryTargets, failAt) ==
    IF i > Len(TargetOrder) THEN acc
    ELSE BindTargets(BindTarget(acc, TargetOrder[i], embroideryTargets[TargetOrder[i]], failAt),
                     i + 1, embroideryTargets, failAt)

\* The embroidery effect: Object.entries(embroideryTargets) in order.
EmbroideryEffect(ms, embroideryTargets, n, failAt) ==
    BindTargets([meshes |-> ms, allocs |-> n, threw |-> FALSE], 1, embroideryTargets, failAt)

\* The outcomes of the synthesis calls of a pass over embroideryTargets: all
\* succeed, or the call for one of the targets that are set throws.
SynthesisFailures(embroideryTargets) ==
    {"none"} \cup { t \in DOMAIN embroideryTargets : embroideryTargets[t] # Null }

\* The effects of one commit, in the order the component declares them; an
\* effect runs when the identity of its dependency changed (or on mount).
RunEffects(ms, runAppearance, runEmbroidery, failAt) ==
    LET m1 == IF runAppearance THEN AppearanceEffect(ms, state.parts) ELSE ms
    IN  IF runEmbroidery THEN EmbroideryEffect(m1, state.targets, allocs, failAt)
                         ELSE [meshes |-> m1, allocs |-> allocs, threw |-> FALSE]

Commit(ms, runAppearance, runEmbroidery, failAt) ==
    LET r == RunEffects(ms, runAppearance, runEmbroidery, failAt)
    IN  /\ meshes' = r.meshes
        /\ allocs' = r.allocs
        /\ crashed' = r.threw
        /\ rendered' = [selectedPart |-> state.selectedPart,
                        partsId      |-> state.partsId,
                        targetsId    |-> state.targetsId]
        /\ last' = [op    |-> "render",
                    key   |-> IF runEmbroidery THEN "embroidery" ELSE "",
                    value |-> IF runAppearance THEN "appearance" ELSE ""]
        /\ UNCHANGED <<state, notifications, seen, slot, alertMsg, exported,
                        disposedTextures, now>>

\* First render of ProceduralGlove: the meshes are created and both effects run.
Mount(failAt) ==
    /\ ~mounted /\ ~crashed
    /\ mounted' = TRUE
    /\ Commit([k \in MeshKeys |-> JSXMaterial(k, state.parts)], TRUE, TRUE, failAt)

\* A re-render after the store changed a value the component selects.
Render(failAt) ==
    /\ mounted /\ ~crashed
    /\ \/ rendered.selectedPart # state.selectedPart
       \/ rendered.partsId # state.partsId
       \/ rendered.targetsId # state.targetsId
    /\ UNCHANGED mounted
    /\ Commit(meshes, rendered.partsId # state.partsId,
              rendered.targetsId # state.targetsId, failAt)

----------------------------------------------------------------------------
(* Specification *)

Init ==
    /\ state = InitialState
    /\ notifications = 0
    /\ seen = View(InitialState)
    /\ slot = Null
    /\ alertMsg = ""
    /\ exported = Null
    /\ mounted = FALSE
    /\ meshes = EmptyObject
    /\ rendered = [selectedPart |-> PART_KEYS[1], partsId |-> 0, targetsId |-> 0]
    /\ allocs = 0
    /\ disposedTextures = {}
    /\ crashed = FALSE
    /\ now = 0
    /\ last = [op |-> "create", key |-> "", value |-> ""]

Next ==
    \/ \E part \in PartArgs, color \in ColorArgs : SetPartColor(part, color)
    \/ \E part \in PartArgs, material \in MaterialArgs : SetPartMaterial(part, material)
    \/ \E part \in SelectArgs : SelectPart(part)
    \/ ResetDesign
    \/ \E targetKey \in TargetArgs, payload \in PayloadArgs : SetEmbroideryTarget(targetKey, payload)
    \/ SaveToLocal
    \/ LoadFromLocal
    \/ \E text \in ForeignTexts : ForeignStorageWrite(text)
    \/ \E failAt \in SynthesisFailures(state.targets) : Mount(failAt)
    \/ \E failAt \in SynthesisFailures(state.targets) : Render(failAt)

Spec == Init /\ [][Next]_vars

----------------------------------------------------------------------------
(* Properties *)

AppearanceKeys == {"material", "color", "pattern"}

IsFullAppearance(a) ==
    /\ DOMAIN a = AppearanceKeys
    /\ \A f \in AppearanceKeys : a[f] # Undefined

IsTargetEntry(e) == e = Null \/ e.kind = "spec"

\* A text of the slot that holds a design with an entry for every static key.
IsCompleteDesignText(raw) ==
    /\ raw # Null
    /\ raw.wellFormed
    /\ PartKeySet \subseteq DOMAIN raw.doc.parts
    /\ \A k \in PartKeySet : IsFullAppearance(raw.doc.parts[k])
    /\ TargetKeySet \subseteq DOMAIN raw.doc.embroidery.targets

\* C1: in every reachable state each of the nine static region keys has an
\* appearance with material, color and pattern all defined, and each of the
\* three static targets has an entry that is null or a spec.
C1_ModelFullyDefined ==
    /\ \A k \in PartKeySet :
          k \in DOMAIN state.parts /\ IsFullAppearance(state.parts[k])
    /\ \A t \in TargetKeySet :
          t \in DOMAIN state.targets /\ IsTargetEntry(state.targets[t])

\* C1 witness: setPartColor has just run on a static key whose material had been
\* changed, while an embroidery target is set.
C1_Witness ==
    /\ last.op = "setPartColor"
    /\ last.key \in PartKeySet
    /\ state.parts[last.key].material # DEFAULT_PART_SETTINGS.material
    /\ \E t \in TargetKeySet : state.targets[t] # Null

\* C2: whenever loadFromLocal has just run on a slot holding a complete design,
\* the load succeeded and the live parts and targets are those of the slot.
C2_RoundTrip ==
    (last.op = "loadFromLocal" /\ IsCompleteDesignText(slot)) =>
        /\ alertMsg # "Failed to parse"
        /\ state.parts = slot.doc.parts
        /\ state.targets = slot.doc.embroidery.targets
        /\ seen = View(state)

\* C3: a loadFromLocal step on a slot that is empty, does not parse or lacks a
\* static region key shows an alert, and leaves the store state (parts,
\* targets, selection) and the scene as they were.
C3_FailedImportKeepsModel ==
    [][ ( /\ last'.op = "loadFromLocal"
          /\ ~IsCompleteDesignText(slot) )
        => /\ state' = state
           /\ notifications' = notifications
           /\ alertMsg' \in {"No saved design found", "Failed to parse"}
           /\ ~crashed' ]_vars

\* C3 witness: a load of the design that lacks glove_web has just failed while
\* the live model differs from that design.
C3_Witness ==
    /\ last.op = "loadFromLocal"
    /\ slot = TruncatedDesignText
    /\ alertMsg = "Failed to parse"
    /\ state.parts["glove_palm"] # DEFAULT_PART_SETTINGS

\* The textures bound to a mesh.
BoundTextureIds == { meshes[k].map.id : k \in { m \in DOMAIN meshes : meshes[m].map # NoTexture } }

\* C4: every texture that was created and is no longer bound to a mesh has been
\* disposed.
C4_UnboundTexturesReleased ==
    \A id \in 1..allocs : id \notin BoundTextureIds => id \in disposedTextures

\* C5: a setPartColor or setPartMaterial step with a key outside PART_KEYS
\* leaves parts as it was; no entry for the key is created.
C5_UnknownRegionIgnored ==
    [][ ( /\ last'.op \in {"setPartColor", "setPartMaterial"}
          /\ last'.key \notin PartKeySet )
        => /\ state'.parts = state.parts
           /\ last'.key \notin DOMAIN state'.parts ]_vars

StoreOps == {"setPartColor", "setPartMaterial", "selectPart", "resetDesign", "setEmbroideryTarget"}

\* Two parts objects agree on every key but r.
SameExcept(p, q, r) ==
    /\ DOMAIN p = DOMAIN q
    /\ \A k \in DOMAIN p \ {r} : p[k] = q[k]

\* C6: a setPartColor(r, c) step with r in PART_KEYS sets r's color to c and
\* leaves r's material and pattern, every other part, the targets and the
\* selection as they were; a setPartMaterial(r, m) step does the same for the
\* material.
C6_SetterChangesOneField ==
    [][ ( /\ last'.op \in {"setPartColor", "setPartMaterial"}
          /\ last'.key \in PartKeySet )
        => LET r     == last'.key
               field == IF last'.op = "setPartColor" THEN "color" ELSE "material"
           IN  /\ state'.parts[r][field] = last'.value
               /\ DOMAIN state'.parts[r] = DOMAIN state.parts[r]
               /\ \A f \in AppearanceKeys \ {field} : state'.parts[r][f] = state.parts[r][f]
               /\ SameExcept(state'.parts, state.parts, r)
               /\ state'.targets = state.targets
               /\ state'.selectedPart = state.selectedPart ]_vars

\* C6 witness: setPartColor has just run on a static key whose material is not
\* the default one and kept it, with a target set and another part changed.
C6_Witness ==
    /\ last.op = "setPartColor"
    /\ last.key = "glove_logo_patch"
    /\ state.parts["glove_logo_patch"] = [material |-> "suede", color |-> "#112233", pattern |-> "none"]
    /\ state.targets["patch"] # Null

\* The store state one resetDesign() later.
AfterReset(st) == Merge(st, resetDesign(st))

\* C7: right after resetDesign every static part has the default appearance
\* and every target is null; and from every reachable state a second
\* resetDesign yields the same parts, targets and selection as the first.
C7_ResetRestoresDefaults ==
    /\ last.op = "resetDesign" =>
          /\ \A k \in PartKeySet : state.parts[k] = DEFAULT_PART_SETTINGS
          /\ \A t \in TargetKeySet : state.targets[t] = Null
    /\ View(AfterReset(AfterReset(state))) = View(AfterReset(state))
    /\ \A k \in PartKeySet : AfterReset(state).parts[k] = DEFAULT_PART_SETTINGS
    /\ \A t \in TargetKeySet : AfterReset(state).targets[t] = Null

\* C7 witness: resetDesign has just run while a mesh still carries the texture
\* of a target that had been set.
C7_Witness ==
    /\ last.op = "resetDesign"
    /\ mounted
    /\ \E k \in DOMAIN meshes : meshes[k].map # NoTexture

\* C8: a commit in which the embroidery effect ran to its end leaves, for every
\* target whose mesh exists, the mesh without texture if the target is null,
\* and otherwise with a texture created in this pass from the target's spec,
\* transparent set and alphaTest 0.5.
C8_TextureIffTargetSet ==
    [][ ( /\ last'.op = "render"
          /\ last'.key = "embroidery"
          /\ ~crashed' )
        => \A t \in { u \in TargetKeySet : TargetMesh[u] \in DOMAIN meshes' } :
              LET mat == meshes'[TargetMesh[t]]
              IN  IF state'.targets[t] = Null
                  THEN mat.map = NoTexture
                  ELSE /\ mat.map # NoTexture
                       /\ mat.map.id > allocs
                       /\ mat.map.id <= allocs'
                       /\ mat.map.text = state'.targets[t].text
                       /\ mat.transparent
                       /\ mat.alphaTest = 50 ]_vars

\* C8 witness: the embroidery effect has just completed a pass after an earlier
\* pass had bound a texture; one target is set and the patch target was cleared.
C8_Witness ==
    /\ last.op = "render"
    /\ last.key = "embroidery"
    /\ ~crashed
    /\ allocs >= 2
    /\ state.targets["patch"] = Null
    /\ meshes["glove_logo_patch"].id > 0
    /\ state.targets["wriststrap"] # Null

\* Colour and shading of a mesh as its part's appearance gives them.
DerivedFromAppearance(mat, appearance) ==
    /\ mat.color = THREEColor(OrElse(Get(appearance, "color"), "#ffffff"))
    /\ mat.roughness = Shading(Get(appearance, "material")).roughness
    /\ mat.metalness = Shading(Get(appearance, "material")).metalness

\* C9: after every commit each mesh has the colour, roughness and metalness
\* derived from its part's current appearance, also where the embroidery
\* effect replaced the material; and from every state of the mounted scene the
\* two effects run in the other order would leave the meshes so as well.
C9_CloneKeepsAppearance ==
    /\ (mounted /\ last.op = "render") =>
          \A k \in DOMAIN meshes : DerivedFromAppearance(meshes[k], state.parts[k])
    /\ (mounted /\ ~crashed) =>
          LET other == AppearanceEffect(
                           EmbroideryEffect(meshes, state.targets, allocs, "none").meshes,
                           state.parts)
          IN  \A k \in DOMAIN other : DerivedFromAppearance(other[k], state.parts[k])

\* C9 witness: both effects ran in one commit for a part that is also a
\* target's region: glove_logo_patch is suede and #112233, the patch target is
\* set and the mesh carries a cloned material.
C9_Witness ==
    /\ last = [op |-> "render", key |-> "embroidery", value |-> "appearance"]
    /\ ~crashed
    /\ state.parts["glove_logo_patch"] = [material |-> "suede", color |-> "#112233", pattern |-> "none"]
    /\ state.targets["patch"] # Null
    /\ meshes["glove_logo_patch"].id > 0
    /\ meshes["glove_logo_patch"].roughness = 90

\* C10: every store function's step notifies the subscribers exactly once, with
\* the complete new state; a step that changes parts or targets installs an
\* object of a new identity; no other step notifies or changes the state; and
\* what the subscribers saw last is always the current state.
C10_NotifyAfterSwap ==
    [][ /\ IF last'.op \in StoreOps
           THEN /\ notifications' = notifications + 1
                /\ seen' = View(state')
           ELSE /\ notifications' = notifications
                /\ state' = state
        /\ state'.parts # state.parts => state'.partsId # state.partsId
        /\ state'.targets # state.targets => state'.targetsId # state.targetsId
        /\ seen = View(state) ]_vars

\* C10 witness: three store functions have run, the last one on the targets
\* after the parts had been changed, and the subscribers hold the current state.
C10_Witness ==
    /\ last.op = "setEmbroideryTarget"
    /\ notifications = 3
    /\ state.parts # InitialParts
    /\ state.targets # InitialTargets
    /\ seen = View(state)

\* C11: a specification with empty text is not a clear.  The step of
\* setEmbroideryTarget leaves the target unset exactly when the payload was
\* null; and after an embroidery pass that ran to its end, the region of every
\* target whose specification has empty text carries a texture synthesized for
\* that empty text, while the region of every unset target carries none.
C11_EmptyTextIsNotClear ==
    /\ last.op = "setEmbroideryTarget" =>
          (state.targets[last.key] = Null <=> last.value = "null")
    /\ (last.op = "render" /\ last.key = "embroidery" /\ ~crashed) =>
          \A t \in TargetKeySet :
             LET settings == state.targets[t]
                 map == meshes[TargetMesh[t]].map
             IN  /\ settings = Null => map = NoTexture
                 /\ (settings # Null /\ settings.text = "") =>
                       /\ map # NoTexture
                       /\ map.text = ""
                       /\ map.id \in 1..allocs
                       /\ meshes[TargetMesh[t]].id = map.id

\* C11 witness: an embroidery pass ran to its end with the patch target set to
\* a specification with empty text, bound to glove_logo_patch, next to the
\* unset wriststrap target whose region has no texture.
C11_Witness ==
    /\ last.op = "render" /\ last.key = "embroidery" /\ ~crashed
    /\ state.targets["patch"] # Null
    /\ state.targets["patch"].text = ""
    /\ meshes["glove_logo_patch"].map # NoTexture
    /\ state.targets["wriststrap"] = Null
    /\ meshes["glove_wriststrap"].map = NoTexture

\* The step that takes the store from its default parts and targets by
\* setPartColor('glove_palm', c).
PalmColoredFromDefault ==
    /\ state.parts = InitialParts
    /\ state.targets = InitialTargets
    /\ last'.op = "setPartColor"
    /\ last'.key = "glove_palm"

C13_ExportIsReadOnly ==
    [][ /\ last'.op = "saveToLocal" =>
              /\ state' = state
              /\ notifications' = notifications
              /\ seen' = seen
              /\ exported'.json.parts = state.parts
              /\ exported'.json.embroidery = [targets |-> state.targets]
        /\ (exported # Null /\ last'.op # "saveToLocal") =>
              /\ exported'.json.parts = exported.json.parts
              /\ exported'.json.embroidery = exported.json.embroidery ]_vars

\* C13 witness: a tree was returned, and afterwards the store replaced both
\* its parts and its targets by other values; the held tree still shows the
\* default model it was taken from.
C13_Witness ==
    /\ exported # Null
    /\ exported.json.parts = InitialParts
    /\ exported.json.embroidery = [targets |-> InitialTargets]
    /\ state.parts # InitialParts
    /\ state.targets # InitialTargets

\* C14: a setPartMaterial whose material is none of the three options changes
\* nothing, so the material of every static part is always one of full_grain,
\* suede and synthetic.
C14_MaterialAlwaysEnumerated ==
    \A k \in PartKeySet : state.parts[k].material \in MaterialOptions

\* The colour and the row of the shading table a material shows for an appearance.
ShowsTableRow(mat, appearance) ==
    /\ mat.color = THREEColor(appearance.color)
    /\ appearance.material = "suede" => mat.roughness = 90 /\ mat.metalness = 0
    /\ appearance.material = "full_grain" => mat.roughness = 50 /\ mat.metalness = 0
    /\ appearance.material \notin {"suede", "full_grain"} =>
          mat.roughness = 60 /\ mat.metalness = 5

\* C15: after a pass of the appearance effect the material of every mesh has
\* the colour of its part and the roughness and metalness of the table (suede
\* 0.9 / 0.0, full_grain 0.5 / 0.0, synthetic and any other name 0.6 / 0.05);
\* and whatever earlier passes left on a material, one iteration of the effect
\* gives it the colour and the row of the appearance it is run with.
C15_PassAppliesShadingTable ==
    /\ (last.op = "render" /\ last.value = "appearance" /\ ~crashed) =>
          \A k \in MeshKeys : ShowsTableRow(meshes[k], state.parts[k])
    /\ (mounted /\ ~crashed) =>
          \A k \in MeshKeys : \A j \in PartKeySet :
             ShowsTableRow(ApplyAppearance(meshes[k], state.parts[j]), state.parts[j])

\* C15 witness: a pass of the appearance effect ran on a model that holds all
\* rows of the table: glove_palm is suede, glove_logo_patch has a material
\* outside the options, the other parts are full_grain.
C15_Witness ==
    /\ last.op = "render" /\ last.value = "appearance" /\ ~crashed
    /\ state.parts["glove_palm"].material = "suede"
    /\ state.parts["glove_logo_patch"].material \notin MaterialOptions
    /\ state.parts["glove_web"].material = "full_grain"
    /\ meshes["glove_palm"].roughness = 90
    /\ meshes["glove_logo_patch"].metalness = 5
    /\ meshes["glove_web"].roughness = 50

\* C16: a createTextTexture that throws for one target does not keep the pass
\* from the other targets.  In every pass of the embroidery effect there is at
\* most one target (the one whose synthesis failed) beside which every target
\* is served: the region of an unset target has no texture, the region of a
\* set target carries a texture made in this pass; and the pass leaves the
\* store state as it is.
C16_FailureSparesOtherTargets ==
    [][ (last'.op = "render" /\ last'.key = "embroidery") =>
          /\ state' = state
          /\ \E f \in TargetKeySet : \A t \in TargetKeySet \ {f} :
                LET map == meshes'[TargetMesh[t]].map
                IN  IF state.targets[t] = Null
                    THEN map = NoTexture
                    ELSE map # NoTexture /\ map.id > allocs ]_vars

C18_SelectionTouchesNothingElse ==
    [][ /\ last'.op = "selectPart" =>
              /\ state'.selectedPart = last'.key
              /\ state'.parts = state.parts
              /\ state'.partsId = state.partsId
              /\ state'.targets = state.targets
              /\ state'.targetsId = state.targetsId
              /\ meshes' = meshes
              /\ allocs' = allocs
        /\ (last'.op = "render" /\ mounted
              /\ rendered.partsId = state.partsId
              /\ rendered.targetsId = state.targetsId) =>
              /\ meshes' = meshes
              /\ allocs' = allocs
              /\ ~crashed' ]_vars

\* C18 witness: with the patch target set and its texture bound, glove_palm
\* was selected and the scene rendered again; that render ran no effect and
\* glove_logo_patch still carries the one texture made so far.
C18_Witness ==
    /\ last = [op |-> "render", key |-> "", value |-> ""]
    /\ rendered.selectedPart = "glove_palm"
    /\ state.targets["patch"] # Null
    /\ allocs = 1
    /\ meshes["glove_logo_patch"].map # NoTexture
    /\ meshes["glove_logo_patch"].map.id = 1

\* C19: clearing a target is idempotent.  From every state and for every
\* target t, setEmbroideryTarget(t, null) called twice leaves the parts, the
\* targets and the selection that one call leaves; and in the mounted scene the
\* material of t's mesh is the same, without a texture, whether the embroidery
\* effect ran after one clear, after each of two clears, or once after both.
C19_ClearIsIdempotent ==
    \A t \in TargetKeySet :
       LET once  == Merge(state, setEmbroideryTarget(state, t, Null))
           twice == Merge(once, setEmbroideryTarget(once, t, Null))
       IN  /\ View(twice) = View(once)
           /\ once.targets[t] = Null
           /\ (mounted /\ ~crashed) =>
                 LET p1 == EmbroideryEffect(meshes, once.targets, allocs, "none")
                     p2 == EmbroideryEffect(p1.meshes, twice.targets, p1.allocs, "none")
                     pb == EmbroideryEffect(meshes, twice.targets, allocs, "none")
                 IN  /\ p1.meshes[TargetMesh[t]].map = NoTexture
                     /\ p2.meshes[TargetMesh[t]] = p1.meshes[TargetMesh[t]]
                     /\ pb.meshes[TargetMesh[t]] = p1.meshes[TargetMesh[t]]

\* C19 witness: the patch target was set and bound, cleared and rendered
\* (glove_logo_patch keeps the cloned material, without its texture), and has
\* now been cleared a second time, with the render of that clear still to come.
C19_Witness ==
    /\ last = [op |-> "setEmbroideryTarget", key |-> "patch", value |-> "null"]
    /\ mounted /\ ~crashed
    /\ state.targetsId = InitialState.targetsId + 3
    /\ rendered.targetsId = InitialState.targetsId + 2
    /\ state.targets["patch"] = Null
    /\ meshes["glove_logo_patch"].id > 0
    /\ meshes["glove_logo_patch"].map = NoTexture

\* The scene is mounted and both effects have run on the parts and targets the
\* store holds now: no render is left that would run an effect.
Settled ==
    /\ mounted /\ ~crashed
    /\ rendered.partsId = state.partsId
    /\ rendered.targetsId = state.targetsId

\* C20: a region whose mesh is missing is passed over by the appearance effect
\* and brought up to date by a later pass, so that every key of PART_KEYS
\* eventually has a surface showing the colour and shading of its part.  A
\* settled scene may stay as it is for ever, so the claim needs every settled
\* scene to show all nine regions already.
C20_EveryRegionReconciled ==
    Settled =>
       \A k \in PartKeySet :
          /\ k \in DOMAIN meshes
          /\ ShowsTableRow(meshes[k], state.parts[k])

\* C21: one change of one target is carried to the scene once and to that
\* target's region only.  In the render that follows a single
\* setEmbroideryTarget(t, ...) on the mounted scene, and in which no synthesis
\* throws, at most one texture is made (one for a specification, none for
\* null), and the mesh of every other target carries the same material and the
\* same texture object after the pass as before it.
C21_OnlyChangedTargetRebound ==
    [][ (/\ mounted
         /\ last.op = "setEmbroideryTarget"
         /\ state.targetsId = rendered.targetsId + 1
         /\ last'.op = "render" /\ last'.key = "embroidery"
         /\ ~crashed') =>
          /\ allocs' = allocs + (IF last.value = "null" THEN 0 ELSE 1)
          /\ \A u \in TargetKeySet \ {last.key} :
                /\ meshes'[TargetMesh[u]].id = meshes[TargetMesh[u]].id
                /\ meshes'[TargetMesh[u]].map = meshes[TargetMesh[u]].map ]_vars

====
